---------------------------- MODULE Spec2Model ----------------------------
(***************************************************************************)
(* Model of UI/GameInfoCache.cpp: the GameInfoCache (key -> GameInfo* map),*)
(* the GameInfoWorkItem loader tasks run by the background work queue, and *)
(* the foreground operations GetInfo / Clear / FlushBGs.                   *)
(*                                                                         *)
(* Granularity: one action per lock-delimited block of the source.  A      *)
(* block guarded by lock_guard is one atomic action, except where the      *)
(* loader performs a read while holding the lock; there the acquisition    *)
(* and the read-and-release are two actions.  The diagnostic time*WasLoaded*)
(* stamps are not modelled.                                                *)
(*                                                                         *)
(* GameInfo objects live in heap cells.  delete frees a cell; a later new  *)
(* may be given a freed cell again (pointer reuse).  An access through a   *)
(* pointer to a freed cell is undefined behaviour: it either has no effect *)
(* (reads yield arbitrary values) or crashes the process.                  *)
(***************************************************************************)
EXTENDS Integers, FiniteSets, Sequences, TLC

\* Bounds of the model.
MaxAlloc == 2      \* GameInfo objects (and work items) ever created
MaxTime  == 1      \* values time_now_d() takes: 0..MaxTime

\* One object more can be created in the runs of SpecBG.
MaxAllocBG == MaxAlloc + 1

Gen  == 1..MaxAllocBG
Addr == 1..MaxAllocBG
Threads == {1, 2}

\* The game paths, in std::map (std::string) order.
KeySeq == <<"a.PBP", "a.elf", "a.iso", "ms0:/PSP/GAME/a">>
Keys == {KeySeq[i] : i \in 1..Len(KeySeq)}

\* startsWith / endsWith dispatch of GameInfoWorkItem::run on the paths above.
Kind(k) ==
    CASE k = "ms0:/PSP/GAME/a" -> "MS0"
      [] k = "a.PBP" -> "PBP"
      [] k = "a.elf" -> "ELF"
      [] OTHER -> "ISO"

NoAddr == 0

VARIABLES
    info_,      \* GameInfoCache::info_ : key -> GameInfo* (NoAddr: no entry)
    heap,       \* address -> GameInfo object, or a freed / unused cell
    item,       \* work items by generation: key, info_ pointer, position
    cur,        \* the work item the worker thread is running (0: none)
    fg,         \* foreground threads: position and locals of the call
    wq,         \* gameInfoWQ_: "none" | "running" | "stopped"
    now,        \* time_now_d()
    nalloc,     \* number of GameInfo objects created so far
    crashed,    \* the process crashed on an access to freed memory
    active,     \* the foreground threads that issue calls
    budget,     \* number of GameInfo objects the run may create
    handed,     \* generations of the Records GetInfo returned since Clear
    lastRet     \* per key: generation GetInfo last returned (0: none)

vars == <<info_, heap, item, cur, fg, wq, now, nalloc, crashed, active,
          budget, handed, lastRet>>

\* A heap cell is a live GameInfo, or one of:
Unused == [st |-> "unused"]      \* never allocated
Freed  == [st |-> "freed"]       \* deleted (line 230)

\* new GameInfo(): the constructor's state, then info->wantBG = wantBG.
NewGameInfo(g, w) ==
    [st |-> "live", gen |-> g, wantBG |-> w,
     fileType |-> "UNKNOWN", title |-> "", paramSFO |-> "",
     iconTextureData |-> "", iconTexture |-> "null",
     pic0TextureData |-> "", pic0Texture |-> "null",
     pic1TextureData |-> "", pic1Texture |-> "null",
     lastAccessedTime |-> 0, lock |-> FALSE]

Alive(a) == a # NoAddr /\ heap[a].st = "live"

\* The generation a pointer denotes now (0: dangling).
GenAt(a) == IF Alive(a) THEN heap[a].gen ELSE 0

NoItem == [pc |-> "none"]
IdleFg == [pc |-> "idle"]

\* ParamSFO::ReadSFO then GetValueString("TITLE").
SfoBlobs == {"", "sfo"}
GetValueString(sfo) == IF sfo = "" THEN "" ELSE "TITLE"

\* Outcomes of an access through pointer a: none to choose when the object
\* is alive; no effect or a crash when it was freed.
CrashChoices(a) == IF Alive(a) THEN {FALSE} ELSE BOOLEAN

\* info_->lock is free (a freed cell has no mutex to wait on).
LockFree(a) == Alive(a) => ~heap[a].lock

Init ==
    /\ info_ = [k \in Keys |-> NoAddr]
    /\ heap = [a \in Addr |-> Unused]
    /\ item = [g \in Gen |-> NoItem]
    /\ cur = 0
    /\ fg = [t \in Threads |-> IdleFg]
    /\ wq = "none"
    /\ now = 0
    /\ nalloc = 0
    /\ crashed = FALSE
    /\ active = {1}
    /\ budget = MaxAlloc
    /\ handed = {}
    /\ lastRet = [k \in Keys |-> 0]

\* The same, with two foreground threads issuing calls.
InitConc ==
    /\ info_ = [k \in Keys |-> NoAddr]
    /\ heap = [a \in Addr |-> Unused]
    /\ item = [g \in Gen |-> NoItem]
    /\ cur = 0
    /\ fg = [t \in Threads |-> IdleFg]
    /\ wq = "none"
    /\ now = 0
    /\ nalloc = 0
    /\ crashed = FALSE
    /\ active = Threads
    /\ budget = MaxAlloc
    /\ handed = {}
    /\ lastRet = [k \in Keys |-> 0]


-----------------------------------------------------------------------------
\* Foreground: GameInfoCache::Init, Shutdown, GetInfo.

NoClear == \A u \in Threads : fg[u].pc # "clearFlush"
OthersIdle(t) == \A u \in Threads \ {t} : fg[u].pc = "idle"

\* A foreground thread may start a call: the queue exists, nobody is inside
\* Clear (callers serialize Clear against every other call).
CanCall(t) ==
    /\ ~crashed
    /\ t \in active
    /\ wq = "running"
    /\ fg[t].pc = "idle"
    /\ NoClear

\* Calls in flight that may still create a GameInfo.
Pending == Cardinality({u \in Threads : fg[u].pc \in {"hit", "again"}})

CacheInit ==
    /\ ~crashed
    /\ wq = "none"
    /\ wq' = "running"
    /\ UNCHANGED <<info_, heap, item, cur, fg, now, nalloc, crashed, active,
                   budget, handed, lastRet>>

Shutdown(t) ==
    /\ CanCall(t)
    /\ OthersIdle(t)
    /\ wq' = "stopped"
    /\ UNCHANGED <<info_, heap, item, cur, fg, now, nalloc, crashed, active,
                   budget, handed, lastRet>>

\* time_now_d() advances.
Tick ==
    /\ ~crashed
    /\ now < MaxTime
    /\ now' = now + 1
    /\ UNCHANGED <<info_, heap, item, cur, fg, wq, nalloc, crashed, active,
                   budget, handed, lastRet>>

\* GetInfo, lines 225-227: info_.find(gamePath).
GetInfoFind(t, k, w) ==
    /\ CanCall(t)
    /\ LET a == info_[k]
           mayCreate == a = NoAddr \/ (w /\ ~(Alive(a) /\ heap[a].wantBG))
       IN  /\ mayCreate => nalloc + Pending < budget
           /\ fg' = [fg EXCEPT ![t] =
                       [pc |-> IF a = NoAddr THEN "again" ELSE "hit",
                        key |-> k, wantBG |-> w, info |-> a]]
    /\ UNCHANGED <<info_, heap, item, cur, wq, now, nalloc, crashed, active,
                   budget, handed, lastRet>>

\* Mutant of the escalation test: the existing Record's wantBG is not looked at.
NeedStartOver_IgnoresRecord(infoWantBG, wantBG) == wantBG

\* The escalation test of line 228.
NeedStartOver(infoWantBG, wantBG) == ~infoWantBG /\ wantBG

\* GetInfo, lines 228-232: if (!info->wantBG && wantBG) { delete info; goto again; }
GetInfoCheck(t) ==
    /\ ~crashed
    /\ fg[t].pc = "hit"
    /\ LET a == fg[t].info IN
       \E b \in (IF Alive(a) THEN {heap[a].wantBG} ELSE BOOLEAN),
          c \in CrashChoices(a) :
          IF NeedStartOver(b, fg[t].wantBG)
          THEN /\ heap' = IF Alive(a) THEN [heap EXCEPT ![a] = Freed] ELSE heap
               /\ crashed' = c
               /\ fg' = [fg EXCEPT ![t].pc = "again"]
          ELSE /\ fg' = [fg EXCEPT ![t].pc = "decIcon"]
               /\ UNCHANGED <<heap, crashed>>
    /\ UNCHANGED <<info_, item, cur, wq, now, nalloc, active, budget, handed,
                   lastRet>>

\* Texture::LoadPNG on the raw bytes: it may fail on any input.
DecodeResults(bytes) == IF bytes = "" THEN {"none"} ELSE {"ok", "fail"}

\* GetInfo, lines 233-247: decode the icon under the lock.
IconDecoded(r, res) ==
    IF res = "none" THEN r
    ELSE [r EXCEPT !.iconTexture = IF res = "ok" THEN "ok" ELSE "null",
                   !.iconTextureData = ""]

GetInfoDecodeIcon(t) ==
    /\ ~crashed
    /\ fg[t].pc = "decIcon"
    /\ LET a == fg[t].info IN
       /\ LockFree(a)
       /\ \E res \in (IF Alive(a) THEN DecodeResults(heap[a].iconTextureData)
                                  ELSE {"none"}),
             c \in CrashChoices(a) :
             /\ heap' = IF Alive(a)
                        THEN [heap EXCEPT ![a] = IconDecoded(heap[a], res)]
                        ELSE heap
             /\ crashed' = c
             /\ fg' = [fg EXCEPT ![t].pc = "decPic0"]
    /\ UNCHANGED <<info_, item, cur, wq, now, nalloc, active, budget, handed,
                   lastRet>>

\* GetInfo, lines 248-260: decode pic0; the failure branch deletes iconTexture.
Pic0Decoded(r, res) ==
    IF res = "none" THEN r
    ELSE IF res = "ok"
         THEN [r EXCEPT !.pic0Texture = "ok", !.pic0TextureData = ""]
         ELSE [r EXCEPT !.pic0Texture = "bad", !.iconTexture = "null",
                        !.pic0TextureData = ""]

GetInfoDecodePic0(t) ==
    /\ ~crashed
    /\ fg[t].pc = "decPic0"
    /\ LET a == fg[t].info IN
       /\ LockFree(a)
       /\ \E res \in (IF Alive(a) THEN DecodeResults(heap[a].pic0TextureData)
                                  ELSE {"none"}),
             c \in CrashChoices(a) :
             /\ heap' = IF Alive(a)
                        THEN [heap EXCEPT ![a] = Pic0Decoded(heap[a], res)]
                        ELSE heap
             /\ crashed' = c
             /\ fg' = [fg EXCEPT ![t].pc = "decPic1"]
    /\ UNCHANGED <<info_, item, cur, wq, now, nalloc, active, budget, handed,
                   lastRet>>

\* GetInfo, lines 261-273: decode pic1; the failure branch deletes iconTexture.
Pic1Decoded(r, res) ==
    IF res = "none" THEN r
    ELSE IF res = "ok"
         THEN [r EXCEPT !.pic1Texture = "ok", !.pic1TextureData = ""]
         ELSE [r EXCEPT !.pic1Texture = "bad", !.iconTexture = "null",
                        !.pic1TextureData = ""]

GetInfoDecodePic1(t) ==
    /\ ~crashed
    /\ fg[t].pc = "decPic1"
    /\ LET a == fg[t].info IN
       /\ LockFree(a)
       /\ \E res \in (IF Alive(a) THEN DecodeResults(heap[a].pic1TextureData)
                                  ELSE {"none"}),
             c \in CrashChoices(a) :
             /\ heap' = IF Alive(a)
                        THEN [heap EXCEPT ![a] = Pic1Decoded(heap[a], res)]
                        ELSE heap
             /\ crashed' = c
             /\ fg' = [fg EXCEPT ![t].pc = "touch"]
    /\ UNCHANGED <<info_, item, cur, wq, now, nalloc, active, budget, handed,
                   lastRet>>

\* Mutant of the return of a hit: a Record whose work item has finished and
\* left the kind unknown gets its work item queued again.
GetInfoTouch_Resubmits(t) ==
    /\ ~crashed
    /\ fg[t].pc = "touch"
    /\ LET k == fg[t].key
           a == info_[k]
           g == GenAt(a)
           retry == /\ g # 0
                    /\ item[g].pc = "done"
                    /\ heap[a].fileType = "UNKNOWN"
       IN  \E c \in CrashChoices(a) :
             /\ heap' = IF Alive(a)
                        THEN [heap EXCEPT ![a].lastAccessedTime = now]
                        ELSE heap
             /\ crashed' = c
             /\ handed' = handed \cup {g}
             /\ lastRet' = [lastRet EXCEPT ![k] = g]
             /\ item' = IF retry THEN [item EXCEPT ![g].pc = "queued"]
                                 ELSE item
    /\ fg' = [fg EXCEPT ![t] = IdleFg]
    /\ UNCHANGED <<info_, cur, wq, now, nalloc, active, budget>>

\* GetInfo, lines 274-275: iter->second->lastAccessedTime = time_now_d();
\* return iter->second.  iter->second is the map's entry as it is now.
GetInfoTouch(t) ==
    /\ ~crashed
    /\ fg[t].pc = "touch"
    /\ LET k == fg[t].key
           a == info_[k]
       IN  \E c \in CrashChoices(a) :
             /\ heap' = IF Alive(a)
                        THEN [heap EXCEPT ![a].lastAccessedTime = now]
                        ELSE heap
             /\ crashed' = c
             /\ handed' = handed \cup {GenAt(a)}
             /\ lastRet' = [lastRet EXCEPT ![k] = GenAt(a)]
    /\ fg' = [fg EXCEPT ![t] = IdleFg]
    /\ UNCHANGED <<info_, item, cur, wq, now, nalloc, active, budget>>

\* operator new: a freed cell may be handed out again, else the next unused.
AllocChoices ==
    LET unused == {a \in Addr : heap[a].st = "unused"}
    IN  {a \in Addr : heap[a].st = "freed"}
          \cup {a \in unused : \A b \in unused : a <= b}

\* GetInfo, lines 278-284: new GameInfo, wantBG, new GameInfoWorkItem, Add.
GetInfoNew(t) ==
    /\ ~crashed
    /\ fg[t].pc = "again"
    /\ nalloc < budget
    /\ LET g == nalloc + 1 IN
       \E a \in AllocChoices :
          /\ heap' = [heap EXCEPT ![a] = NewGameInfo(g, fg[t].wantBG)]
          /\ item' = [item EXCEPT ![g] =
                        [pc |-> "queued", key |-> fg[t].key, info |-> a]]
          /\ nalloc' = g
          /\ fg' = [fg EXCEPT ![t].pc = "insert", ![t].info = a]
    /\ UNCHANGED <<info_, cur, wq, now, crashed, active, budget, handed,
                   lastRet>>

\* GetInfo, lines 286-287: info_[gamePath] = info; return info.
GetInfoInsert(t) ==
    /\ ~crashed
    /\ fg[t].pc = "insert"
    /\ LET k == fg[t].key
           a == fg[t].info
       IN  /\ info_' = [info_ EXCEPT ![k] = a]
           /\ handed' = handed \cup {GenAt(a)}
           /\ lastRet' = [lastRet EXCEPT ![k] = GenAt(a)]
    /\ fg' = [fg EXCEPT ![t] = IdleFg]
    /\ UNCHANGED <<heap, item, cur, wq, now, nalloc, crashed, active, budget>>

-----------------------------------------------------------------------------
\* Foreground: Clear and FlushBGs.

\* PrioritizedWorkQueue::Flush has returned: no work item is queued or running.
Flushed == \A g \in Gen : item[g].pc \in {"none", "done"}

\* Clear, lines 179-192, on one map entry: the pic0 and pic1 buffers and textures.
ClearReleased(r) ==
    [r EXCEPT !.pic0TextureData = "", !.pic0Texture = "null",
              !.pic1TextureData = "", !.pic1Texture = "null"]

\* info_.clear() drops the pointer and never deletes the object: it stays
\* allocated with nothing in the cache pointing to it.  Of such an object the
\* model keeps the artifact slots, the resources it still owns.
Leaked(r) ==
    [st |-> "leaked",
     iconTextureData |-> r.iconTextureData, iconTexture |-> r.iconTexture,
     pic0TextureData |-> r.pic0TextureData, pic0Texture |-> r.pic0Texture,
     pic1TextureData |-> r.pic1TextureData, pic1Texture |-> r.pic1Texture]

\* The pointers the map holds.
Mapped == {info_[k] : k \in Keys} \ {NoAddr}

ClearCall(t) ==
    /\ CanCall(t)
    /\ OthersIdle(t)
    /\ fg' = [fg EXCEPT ![t] = [pc |-> "clearFlush"]]
    /\ UNCHANGED <<info_, heap, item, cur, wq, now, nalloc, crashed, active,
                   budget, handed, lastRet>>

\* Mutant of Clear: the call of Flush (line 176) is missing.
ClearDrained_NoFlush(t) ==
    /\ ~crashed
    /\ fg[t].pc = "clearFlush"
    /\ \A a \in Mapped : LockFree(a)
    /\ heap' = [a \in Addr |->
                  IF a \in Mapped /\ Alive(a)
                  THEN Leaked(ClearReleased(heap[a]))
                  ELSE heap[a]]
    /\ crashed' = crashed
    /\ info_' = [k \in Keys |-> NoAddr]
    /\ handed' = {}
    /\ lastRet' = [k \in Keys |-> 0]
    /\ fg' = [fg EXCEPT ![t] = IdleFg]
    /\ UNCHANGED <<item, cur, wq, now, nalloc, active, budget>>

\* Clear, lines 176-195: once Flush returns, release every entry's background
\* slots and empty the map.  No other call runs meanwhile, so no lock is held.
ClearDrained(t) ==
    /\ ~crashed
    /\ fg[t].pc = "clearFlush"
    /\ Flushed
    /\ \A a \in Mapped : LockFree(a)
    /\ heap' = [a \in Addr |->
                  IF a \in Mapped /\ Alive(a)
                  THEN Leaked(ClearReleased(heap[a]))
                  ELSE heap[a]]
    /\ \E c \in (IF \A a \in Mapped : Alive(a) THEN {FALSE} ELSE BOOLEAN) :
          crashed' = c
    /\ info_' = [k \in Keys |-> NoAddr]
    /\ item' = [g \in Gen |-> NoItem]
    /\ handed' = {}
    /\ lastRet' = [k \in Keys |-> 0]
    /\ fg' = [fg EXCEPT ![t] = IdleFg]
    /\ UNCHANGED <<cur, wq, now, nalloc, active, budget>>

\* Mutant of the FlushBGs body: it deletes iconTexture too.
BGFlushed_DropsIcon(r) ==
    [r EXCEPT !.pic0TextureData = "", !.pic0Texture = "null",
              !.pic1TextureData = "", !.pic1Texture = "null",
              !.iconTexture = "null"]

\* FlushBGs, lines 200-213, on one map entry.
BGFlushed(r) ==
    [r EXCEPT !.pic0TextureData = "", !.pic0Texture = "null",
              !.pic1TextureData = "", !.pic1Texture = "null"]

\* The map entry the iterator stands on: the first key at or after position i
\* that has an entry (0: info_.end()).
IterAt(i) ==
    LET js == {j \in i..Len(KeySeq) : info_[KeySeq[j]] # NoAddr}
    IN  IF js = {} THEN 0 ELSE CHOOSE j \in js : \A h \in js : j <= h

FlushBGsCall(t) ==
    /\ CanCall(t)
    /\ fg' = [fg EXCEPT ![t] = [pc |-> "flushBGs", i |-> 1]]
    /\ UNCHANGED <<info_, heap, item, cur, wq, now, nalloc, crashed, active,
                   budget, handed, lastRet>>

\* FlushBGs, lines 198-214: one iteration of the loop, under the entry's lock.
FlushBGsStep(t) ==
    /\ ~crashed
    /\ fg[t].pc = "flushBGs"
    /\ IterAt(fg[t].i) # 0
    /\ LET j == IterAt(fg[t].i)
           a == info_[KeySeq[j]]
       IN  /\ LockFree(a)
           /\ \E c \in CrashChoices(a) :
                 /\ heap' = IF Alive(a)
                            THEN [heap EXCEPT ![a] = BGFlushed(heap[a])]
                            ELSE heap
                 /\ crashed' = c
           /\ fg' = [fg EXCEPT ![t].i = j + 1]
    /\ UNCHANGED <<info_, item, cur, wq, now, nalloc, active, budget, handed,
                   lastRet>>

\* FlushBGs, line 198: iter == info_.end(), return.
FlushBGsReturn(t) ==
    /\ ~crashed
    /\ fg[t].pc = "flushBGs"
    /\ IterAt(fg[t].i) = 0
    /\ fg' = [fg EXCEPT ![t] = IdleFg]
    /\ UNCHANGED <<info_, heap, item, cur, wq, now, nalloc, crashed, active,
                   budget, handed, lastRet>>

-----------------------------------------------------------------------------
\* Background: the work queue's thread and GameInfoWorkItem.

Queued == {g \in Gen : item[g].pc = "queued"}

\* GameInfoWorkItem::priority, lines 137-139: info_->lastAccessedTime, read
\* without the lock; any value when info_ dangles.
Priority(g) ==
    IF Alive(item[g].info) THEN {heap[item[g].info].lastAccessedTime}
                           ELSE 0..MaxTime

\* The queue runs the item of highest priority; ties in any order.
TopPriority(g) ==
    \E p \in Priority(g) :
       \A h \in Queued \ {g} : \E q \in Priority(h) : q <= p

Pop ==
    /\ ~crashed
    /\ wq = "running"
    /\ cur = 0
    /\ \E g \in Queued :
          /\ TopPriority(g)
          /\ item' = [item EXCEPT ![g].pc = "run"]
          /\ cur' = g
    /\ UNCHANGED <<info_, heap, fg, wq, now, nalloc, crashed, active, budget,
                   handed, lastRet>>

\* The running item is at position p of run().
At(p) == ~crashed /\ cur # 0 /\ item[cur].pc = p

\* The item's info_ pointer.
Info == item[cur].info

\* run() moves on to position p; "done" returns the worker to the queue.
Goto(p) ==
    /\ item' = [item EXCEPT ![cur].pc = p]
    /\ cur' = IF p = "done" THEN 0 ELSE cur

\* A write through info_: on the object when alive (whatever its generation),
\* else without effect or crashing.
Store(r) ==
    \E c \in CrashChoices(Info) :
       /\ heap' = IF Alive(Info) THEN [heap EXCEPT ![Info] = r] ELSE heap
       /\ crashed' = c

\* info_->wantBG as read at lines 93 and 126, without the lock.
WantBGRead == IF Alive(Info) THEN {heap[Info].wantBG} ELSE BOOLEAN

\* run(), lines 65-66: a path under ms0:/PSP/GAME returns at once.
RunMs0 ==
    /\ At("run")
    /\ Kind(item[cur].key) = "MS0"
    /\ Goto("done")
    /\ UNCHANGED <<info_, heap, fg, wq, now, nalloc, crashed, active, budget,
                   handed, lastRet>>

\* run(), lines 100-102: fileType = ELF, return.
RunElf ==
    /\ At("run")
    /\ Kind(item[cur].key) = "ELF"
    /\ Store(IF Alive(Info) THEN [heap[Info] EXCEPT !.fileType = "ELF"]
                            ELSE Freed)
    /\ Goto("done")
    /\ UNCHANGED <<info_, fg, wq, now, nalloc, active, budget, handed,
                   lastRet>>

\* run(), lines 68-72: PBPReader; invalid: return; else fileType = PBP.
RunPbpOpen ==
    /\ At("run")
    /\ Kind(item[cur].key) = "PBP"
    /\ \E valid \in BOOLEAN :
          IF valid
          THEN /\ Store(IF Alive(Info)
                        THEN [heap[Info] EXCEPT !.fileType = "PBP"]
                        ELSE Freed)
               /\ Goto("pbpSfo")
          ELSE /\ Goto("done")
               /\ UNCHANGED <<heap, crashed>>
    /\ UNCHANGED <<info_, fg, wq, now, nalloc, active, budget, handed,
                   lastRet>>

\* run(), lines 104-111: fileType = ISO, then constructBlockDevice; null: return.
RunIsoOpen ==
    /\ At("run")
    /\ Kind(item[cur].key) = "ISO"
    /\ Store(IF Alive(Info) THEN [heap[Info] EXCEPT !.fileType = "ISO"]
                            ELSE Freed)
    /\ \E bd \in BOOLEAN : Goto(IF bd THEN "isoSfo" ELSE "done")
    /\ UNCHANGED <<info_, fg, wq, now, nalloc, active, budget, handed,
                   lastRet>>

\* paramSFO.ReadSFO(blob); title = paramSFO.GetValueString("TITLE").
SfoLoaded(r, sfo) ==
    [r EXCEPT !.paramSFO = sfo, !.title = GetValueString(sfo)]

\* run(), lines 74-81: PARAM.SFO of the PBP, stored under the lock.
PbpSfo ==
    /\ At("pbpSfo")
    /\ LockFree(Info)
    /\ \E sfo \in SfoBlobs :
          Store(IF Alive(Info) THEN SfoLoaded(heap[Info], sfo) ELSE Freed)
    /\ Goto("pbpIcon")
    /\ UNCHANGED <<info_, fg, wq, now, nalloc, active, budget, handed,
                   lastRet>>

\* lock_guard lock(info_->lock), lines 85 and 95 and 45.
Locked(r) == [r EXCEPT !.lock = TRUE]

\* run(), line 85: take the lock before reading ICON0.PNG.
PbpIconLock ==
    /\ At("pbpIcon")
    /\ LockFree(Info)
    /\ Store(IF Alive(Info) THEN Locked(heap[Info]) ELSE Freed)
    /\ Goto("pbpIconRd")
    /\ UNCHANGED <<info_, fg, wq, now, nalloc, active, budget, handed,
                   lastRet>>

\* The raw bytes a present file yields, stored into a slot's buffer; the
\* lock_guard's scope ends.
Filled(r, f, bytes) == [r EXCEPT ![f] = bytes, !.lock = FALSE]
Released(r) == [r EXCEPT !.lock = FALSE]

\* run(), lines 86-91: GetSubFileSize > 0 ? GetSubFileAsString : nothing; unlock.
PbpIconRead ==
    /\ At("pbpIconRd")
    /\ \E has \in BOOLEAN :
          Store(IF Alive(Info)
                THEN IF has THEN Filled(heap[Info], "iconTextureData", "png")
                            ELSE Released(heap[Info])
                ELSE Freed)
    /\ Goto("pbpBG")
    /\ UNCHANGED <<info_, fg, wq, now, nalloc, active, budget, handed,
                   lastRet>>

\* run(), line 93: if (info_->wantBG).
PbpBG ==
    /\ At("pbpBG")
    /\ \E b \in WantBGRead : Goto(IF b THEN "pbpPic1" ELSE "done")
    /\ UNCHANGED <<info_, heap, fg, wq, now, nalloc, crashed, active, budget,
                   handed, lastRet>>

\* run(), line 95: take the lock before reading PIC1.PNG.
PbpPic1Lock ==
    /\ At("pbpPic1")
    /\ LockFree(Info)
    /\ Store(IF Alive(Info) THEN Locked(heap[Info]) ELSE Freed)
    /\ Goto("pbpPic1Rd")
    /\ UNCHANGED <<info_, fg, wq, now, nalloc, active, budget, handed,
                   lastRet>>

\* run(), lines 96-98: PIC1.PNG into pic1TextureData; unlock.
PbpPic1Read ==
    /\ At("pbpPic1Rd")
    /\ \E has \in BOOLEAN :
          Store(IF Alive(Info)
                THEN IF has THEN Filled(heap[Info], "pic1TextureData", "png")
                            ELSE Released(heap[Info])
                ELSE Freed)
    /\ Goto("done")
    /\ UNCHANGED <<info_, fg, wq, now, nalloc, active, budget, handed,
                   lastRet>>

\* run(), lines 116-120: /PSP_GAME/PARAM.SFO read without the lock, then, when
\* the file exists, stored under it.
IsoSfo ==
    /\ At("isoSfo")
    /\ \E exists \in BOOLEAN :
          IF exists
          THEN /\ LockFree(Info)
               /\ \E sfo \in SfoBlobs :
                     Store(IF Alive(Info) THEN SfoLoaded(heap[Info], sfo)
                                          ELSE Freed)
          ELSE UNCHANGED <<heap, crashed>>
    /\ Goto("isoIcon")
    /\ UNCHANGED <<info_, fg, wq, now, nalloc, active, budget, handed,
                   lastRet>>

\* The three ReadFileToString calls of lines 123, 128, 131: the buffer each
\* fills, the position while it reads, and the position after it.
IsoFiles == {"isoIcon", "isoPic0", "isoPic1"}
IsoField(p) ==
    CASE p = "isoIcon" -> "iconTextureData"
      [] p = "isoPic0" -> "pic0TextureData"
      [] OTHER -> "pic1TextureData"
IsoAfter(p) ==
    CASE p = "isoIcon" -> "isoBG"
      [] p = "isoPic0" -> "isoPic1"
      [] OTHER -> "done"

\* ReadFileToString, lines 34-46: GetFileInfo, OpenFile; a missing file
\* returns false; else take the lock and size the buffer.
IsoFileOpen ==
    /\ ~crashed /\ cur # 0
    /\ item[cur].pc \in IsoFiles
    /\ \E exists \in BOOLEAN :
          IF exists
          THEN /\ LockFree(Info)
               /\ Store(IF Alive(Info) THEN Locked(heap[Info]) ELSE Freed)
               /\ Goto("rd_" \o item[cur].pc)
          ELSE /\ Goto(IsoAfter(item[cur].pc))
               /\ UNCHANGED <<heap, crashed>>
    /\ UNCHANGED <<info_, fg, wq, now, nalloc, active, budget, handed,
                   lastRet>>

\* ReadFileToString, lines 47-53: ReadFile into the buffer with the lock
\* held, unlock, CloseFile.
IsoFileRead ==
    /\ ~crashed /\ cur # 0
    /\ \E p \in IsoFiles :
          /\ item[cur].pc = "rd_" \o p
          /\ Store(IF Alive(Info) THEN Filled(heap[Info], IsoField(p), "png")
                                  ELSE Freed)
          /\ Goto(IsoAfter(p))
    /\ UNCHANGED <<info_, fg, wq, now, nalloc, active, budget, handed,
                   lastRet>>

\* run(), line 126: if (info_->wantBG).
IsoBG ==
    /\ At("isoBG")
    /\ \E b \in WantBGRead : Goto(IF b THEN "isoPic0" ELSE "done")
    /\ UNCHANGED <<info_, heap, fg, wq, now, nalloc, crashed, active, budget,
                   handed, lastRet>>

-----------------------------------------------------------------------------
Foreground(t) ==
    \/ Shutdown(t)
    \/ \E k \in Keys, w \in BOOLEAN : GetInfoFind(t, k, w)
    \/ GetInfoCheck(t)
    \/ GetInfoDecodeIcon(t)
    \/ GetInfoDecodePic0(t)
    \/ GetInfoDecodePic1(t)
    \/ GetInfoTouch(t)
    \/ GetInfoNew(t)
    \/ GetInfoInsert(t)
    \/ ClearCall(t)
    \/ ClearDrained(t)
    \/ FlushBGsCall(t)
    \/ FlushBGsStep(t)
    \/ FlushBGsReturn(t)

Worker ==
    \/ Pop
    \/ RunMs0 \/ RunElf \/ RunPbpOpen \/ RunIsoOpen
    \/ PbpSfo \/ PbpIconLock \/ PbpIconRead \/ PbpBG
    \/ PbpPic1Lock \/ PbpPic1Read
    \/ IsoSfo \/ IsoFileOpen \/ IsoFileRead \/ IsoBG

Next ==
    \/ CacheInit
    \/ \E t \in Threads : Foreground(t)
    \/ Worker

\* One foreground thread, the worker thread interleaved.  time_now_d() stands
\* still, so every lastAccessedTime is equal and the queue may run its items
\* in any order.
Spec == Init /\ [][Next]_vars

\* Two foreground threads calling GetInfo on paths whose work items read no
\* files (an executable, a directory under ms0:/PSP/GAME).
ConcKeys == {"a.elf", "ms0:/PSP/GAME/a"}

NextConc ==
    \/ CacheInit
    \/ \E t \in Threads :
          \/ \E k \in ConcKeys, w \in BOOLEAN : GetInfoFind(t, k, w)
          \/ GetInfoCheck(t)
          \/ GetInfoDecodeIcon(t)
          \/ GetInfoDecodePic0(t)
          \/ GetInfoDecodePic1(t)
          \/ GetInfoTouch(t)
          \/ GetInfoNew(t)
          \/ GetInfoInsert(t)
    \/ Pop
    \/ RunMs0
    \/ RunElf

SpecConc == InitConc /\ [][NextConc]_vars

\* As Spec, with time_now_d() advancing.
NextClock == Next \/ Tick

SpecClock == Init /\ [][NextClock]_vars

\* One foreground thread calling GetInfo on a PBP and on a directory under
\* ms0:/PSP/GAME, with one more GameInfo to create than in Spec.
InitBG ==
    /\ info_ = [k \in Keys |-> NoAddr]
    /\ heap = [a \in Addr |-> Unused]
    /\ item = [g \in Gen |-> NoItem]
    /\ cur = 0
    /\ fg = [t \in Threads |-> IdleFg]
    /\ wq = "none"
    /\ now = 0
    /\ nalloc = 0
    /\ crashed = FALSE
    /\ active = {1}
    /\ budget = MaxAllocBG
    /\ handed = {}
    /\ lastRet = [k \in Keys |-> 0]

BGKeys == {"a.PBP", "ms0:/PSP/GAME/a"}

\* The steps of the worker thread on those paths.
WorkerBG ==
    \/ Pop
    \/ RunMs0
    \/ RunPbpOpen
    \/ PbpSfo
    \/ PbpIconLock
    \/ PbpIconRead
    \/ PbpBG
    \/ PbpPic1Lock
    \/ PbpPic1Read

NextBG ==
    \/ CacheInit
    \/ \E t \in Threads :
          \/ \E k \in BGKeys, w \in BOOLEAN : GetInfoFind(t, k, w)
          \/ GetInfoCheck(t)
          \/ GetInfoDecodeIcon(t)
          \/ GetInfoDecodePic0(t)
          \/ GetInfoDecodePic1(t)
          \/ GetInfoTouch(t)
          \/ GetInfoNew(t)
          \/ GetInfoInsert(t)
    \/ WorkerBG

SpecBG == InitBG /\ [][NextBG]_vars

\* As SpecBG with the objects of Spec, after Init() and with a worker thread
\* that runs whenever it has something to do.
SpecLive ==
    Init /\ [][NextBG]_vars /\ WF_vars(CacheInit) /\ WF_vars(WorkerBG)

-----------------------------------------------------------------------------
\* Properties.

\* Work items that are queued or running.
Outstanding == {g \in Gen : item[g].pc \notin {"none", "done"}}

\* The generations of the GameInfo objects that have not been deleted.
LiveGens == {heap[a].gen : a \in {b \in Addr : heap[b].st = "live"}}

\* C1: a Record is never freed while a Loader task bound to it is still queued
\* or running: the pointer of every outstanding work item denotes the Record
\* the item was created for.
C1_NoFreeWhileTaskOutstanding ==
    \A g \in Outstanding : GenAt(item[g].info) = g

\* The running work item changes a Record of another generation than its own.
CrossGenerationWrite ==
    /\ cur # 0
    /\ item'[cur] # item[cur]
    /\ Alive(item[cur].info)
    /\ heap[item[cur].info].gen # cur
    /\ heap'[item[cur].info] # heap[item[cur].info]

\* Thread t returns from GetInfo(k, w).
GetInfoReturns(t, k, w) ==
    /\ fg[t].pc \in {"touch", "insert"}
    /\ fg'[t].pc = "idle"
    /\ fg[t].key = k
    /\ fg[t].wantBG = w

\* C2: when GetInfo(k, true) returns, the map holds one live Record for k and
\* it has wantBackground = true; and no Loader task ever writes into a Record
\* other than the one it was bound to (no cross-generation write).
C2_EscalationKeepsGenerationsApart ==
    [][ /\ ~CrossGenerationWrite
        /\ \A t \in Threads, k \in Keys :
              GetInfoReturns(t, k, TRUE) =>
                 /\ info_'[k] # NoAddr
                 /\ heap'[info_'[k]].st = "live"
                 /\ heap'[info_'[k]].wantBG ]_vars

\* C3: every Record GetInfo has returned since the last Clear is still
\* allocated (handed is emptied by Clear).
C3_HandlesStayValid == handed \subseteq LiveGens

\* Thread t is inside a GetInfo call that found an entry and does not ask for
\* more than the Record has (no false-to-true escalation).
PlainHit(t) ==
    \/ fg[t].pc \in {"decIcon", "decPic0", "decPic1", "touch"}
    \/ /\ fg[t].pc = "hit"
       /\ Alive(fg[t].info)
       /\ (heap[fg[t].info].wantBG \/ ~fg[t].wantBG)

\* C4: a GetInfo call on k that finds an entry and is no false-to-true
\* escalation creates no Record, leaves the map and the Record's wantBG as
\* they are, and returns the Record the previous GetInfo on k returned.
C4_HitReturnsSameRecord ==
    [][ \A t \in Threads :
          PlainHit(t) =>
             /\ nalloc' = nalloc
             /\ info_' = info_
             /\ heap'[fg[t].info].st = "live"
             /\ heap'[fg[t].info].gen = heap[fg[t].info].gen
             /\ heap'[fg[t].info].wantBG = heap[fg[t].info].wantBG
             /\ fg'[t].pc = "idle" =>
                   /\ lastRet[fg[t].key] # 0
                   /\ lastRet'[fg[t].key] = lastRet[fg[t].key]
                   /\ lastRet'[fg[t].key] = heap[fg[t].info].gen ]_vars

\* GetInfo(k, true) on a Record created with wantBG = true, its icon already
\* decoded by an earlier hit, is about to return that same Record.
C4_Witness ==
    \E t \in Threads :
       /\ fg[t].pc = "touch"
       /\ fg[t].wantBG
       /\ Alive(fg[t].info)
       /\ heap[fg[t].info].wantBG
       /\ heap[fg[t].info].iconTexture = "ok"
       /\ lastRet[fg[t].key] = heap[fg[t].info].gen

\* C5: at most one Record exists per key: two GameInfo objects that are both
\* allocated were created for different keys.
C5_OneRecordPerKey ==
    \A a, b \in Addr :
       (a # b /\ Alive(a) /\ Alive(b)) =>
          item[heap[a].gen].key # item[heap[b].gen].key

\* Thread t returns from Clear.
ClearReturns(t) == fg[t].pc = "clearFlush" /\ fg'[t].pc = "idle"

AllSlotsEmpty(r) ==
    /\ r.iconTextureData = "" /\ r.iconTexture = "null"
    /\ r.pic0TextureData = "" /\ r.pic0Texture = "null"
    /\ r.pic1TextureData = "" /\ r.pic1Texture = "null"

\* C7: when Clear returns the map is empty and every Record that was in it
\* has all three slots Empty.
C7_ClearReleasesEverything ==
    [][ \A t \in Threads :
          ClearReturns(t) =>
             /\ \A k \in Keys : info_'[k] = NoAddr
             /\ \A k \in Keys :
                   info_[k] # NoAddr => AllSlotsEmpty(heap'[info_[k]]) ]_vars

\* Thread t performs the decode block of a slot whose buffer holds raw bytes.
DecodesSlot(t, pc, data) ==
    /\ fg[t].pc = pc
    /\ fg'[t].pc # pc
    /\ Alive(fg[t].info)
    /\ heap[fg[t].info][data] # ""

\* After the decode block the slot is Decoded (a loaded texture, no raw
\* bytes) or Empty (no texture, no raw bytes).
DecodedOrEmpty(r, data, tex) == r[data] = "" /\ r[tex] \in {"ok", "null"}

\* C8: the decode block of each of the three slots leaves a RawBytes slot
\* either Decoded (decoder succeeded) or Empty (decoder failed).
C8_DecodeOutcome ==
    [][ \A t \in Threads :
          /\ DecodesSlot(t, "decIcon", "iconTextureData") =>
                DecodedOrEmpty(heap'[fg[t].info],
                               "iconTextureData", "iconTexture")
          /\ DecodesSlot(t, "decPic0", "pic0TextureData") =>
                DecodedOrEmpty(heap'[fg[t].info],
                               "pic0TextureData", "pic0Texture")
          /\ DecodesSlot(t, "decPic1", "pic1TextureData") =>
                DecodedOrEmpty(heap'[fg[t].info],
                               "pic1TextureData", "pic1Texture") ]_vars

\* C9: outside a critical section no slot of a Record holds raw bytes and a
\* texture at once.
C9_RawXorDecoded ==
    \A a \in Addr :
       (Alive(a) /\ ~heap[a].lock) =>
          /\ ~(heap[a].iconTextureData # "" /\ heap[a].iconTexture # "null")
          /\ ~(heap[a].pic0TextureData # "" /\ heap[a].pic0Texture # "null")
          /\ ~(heap[a].pic1TextureData # "" /\ heap[a].pic1Texture # "null")

\* Thread t performs one iteration of the FlushBGs loop.
FlushBGsVisits(t) ==
    /\ fg[t].pc = "flushBGs"
    /\ fg'[t].pc = "flushBGs"
    /\ fg'[t].i # fg[t].i

\* C10: each iteration of FlushBGs visits the next map entry in key order and
\* leaves its Record with both background slots Empty and every other field
\* as it was; no other Record and no map entry changes; FlushBGs returns only
\* when no entry is left to visit.
C10_FlushBGsFrame ==
    [][ \A t \in Threads :
          /\ FlushBGsVisits(t) =>
                LET j == fg'[t].i - 1
                    a == info_[KeySeq[j]]
                IN  /\ j >= fg[t].i
                    /\ \A h \in fg[t].i..(j - 1) : info_[KeySeq[h]] = NoAddr
                    /\ a # NoAddr
                    /\ info_' = info_
                    /\ \A b \in Addr \ {a} : heap'[b] = heap[b]
                    /\ heap'[a] = [heap[a] EXCEPT !.pic0TextureData = "",
                                                  !.pic0Texture = "null",
                                                  !.pic1TextureData = "",
                                                  !.pic1Texture = "null"]
          /\ (fg[t].pc = "flushBGs" /\ fg'[t].pc = "idle") =>
                /\ \A h \in fg[t].i..Len(KeySeq) : info_[KeySeq[h]] = NoAddr
                /\ info_' = info_
                /\ heap' = heap ]_vars

\* FlushBGs stands on a Record whose icon and pic1 are Decoded, whose pic0
\* holds raw bytes and whose title is set.
C10_Witness ==
    \E t \in Threads :
       /\ fg[t].pc = "flushBGs"
       /\ \E j \in fg[t].i..Len(KeySeq) :
             /\ \A h \in fg[t].i..(j - 1) : info_[KeySeq[h]] = NoAddr
             /\ Alive(info_[KeySeq[j]])
             /\ heap[info_[KeySeq[j]]].iconTexture = "ok"
             /\ heap[info_[KeySeq[j]]].pic1Texture = "ok"
             /\ heap[info_[KeySeq[j]]].pic0TextureData # ""
             /\ heap[info_[KeySeq[j]]].title # ""

\* The running work item returns from run() because the source could not be
\* opened: the PBP is not valid (line 70), or no block device could be
\* constructed for the image (line 110).
OpenFails ==
    /\ cur # 0
    /\ item[cur].pc = "run"
    /\ Kind(item[cur].key) \in {"PBP", "ISO"}
    /\ item'[cur].pc = "done"

\* C11: a Loader task that cannot open its source (invalid Bundle container,
\* block-device construction failure) terminates without changing any field
\* of its Record, the kind included.
C11_FailedOpenLeavesRecord == [][OpenFails => heap' = heap]_vars

\* Thread t executes a statement of GetInfo that reads or writes a field of
\* the GameInfo at address a: the wantBG test of line 228, a decode block of
\* lines 233-273, the lastAccessedTime store of line 274.
GetInfoAccesses(t, a) ==
    /\ fg[t].pc \in {"hit", "decIcon", "decPic0", "decPic1", "touch"}
    /\ fg'[t] # fg[t]
    /\ a = IF fg[t].pc = "touch" THEN info_[fg[t].key] ELSE fg[t].info
    /\ Alive(a)

\* C12: every read or write of a Record's mutable fields happens while the
\* accessing thread holds that Record's lock: no statement of GetInfo touches
\* a Record whose lock is held by the work item at that moment.
C12_AccessesUnderLock ==
    [][\A t \in Threads, a \in Addr :
          GetInfoAccesses(t, a) => ~heap[a].lock]_vars

\* The positions of run() inside a read call made with the lock held:
\* GetSubFileAsString (lines 88, 97), fs->ReadFile (line 47).
ReadsUnderLock ==
    {"pbpIconRd", "pbpPic1Rd", "rd_isoIcon", "rd_isoPic0", "rd_isoPic1"}

\* Thread t stands at a lock_guard of GetInfo's decode blocks and the lock of
\* the Record at a is taken.
WaitsForLock(t, a) ==
    /\ fg[t].pc \in {"decIcon", "decPic0", "decPic1"}
    /\ a = fg[t].info
    /\ Alive(a)
    /\ heap[a].lock

\* C13: a foreground GetInfo never waits for a Record's lock while the work
\* item holding it is inside a file-system or container read.
C13_NoReadUnderLock ==
    \A t \in Threads, a \in Addr :
       WaitsForLock(t, a) =>
          ~(cur # 0 /\ item[cur].info = a /\ item[cur].pc \in ReadsUnderLock)

\* Both background slots of Record r are Empty.
BackgroundEmpty(r) ==
    /\ r.pic0TextureData = "" /\ r.pic0Texture = "null"
    /\ r.pic1TextureData = "" /\ r.pic1Texture = "null"

\* C14: both background slots of every Record created with wantBG = false
\* stay Empty, whatever the work items and the decode blocks do.
C14_NoBackgroundUnlessWanted ==
    \A a \in Addr :
       (Alive(a) /\ ~heap[a].wantBG) => BackgroundEmpty(heap[a])

\* The artifact slots: raw buffer and texture handle of each.
Slots ==
    {<<"iconTextureData", "iconTexture">>,
     <<"pic0TextureData", "pic0Texture">>,
     <<"pic1TextureData", "pic1Texture">>}

\* How far slot s of Record r has come: 0 Empty, 1 RawBytes, 2 Decoded.
SlotRank(r, s) ==
    IF r[s[1]] # "" THEN 1 ELSE IF r[s[2]] # "null" THEN 2 ELSE 0

\* C15: between a Record's creation and Clear each of its slots moves only
\* forward along Empty -> RawBytes -> Decoded: no step of GetInfo, FlushBGs
\* or a work item takes a slot back to an earlier state.
C15_SlotsMoveForward ==
    [][\A a \in Addr :
          (Alive(a) /\ heap'[a].st = "live" /\ heap'[a].gen = heap[a].gen)
             => \A s \in Slots :
                   SlotRank(heap'[a], s) >= SlotRank(heap[a], s)]_vars

\* Thread t returns an existing Record from GetInfo (line 275).
ReturnsExisting(t) == fg[t].pc = "touch" /\ fg'[t].pc = "idle"

\* The values priority() may return for queued item g are exactly the
\* lastAccessedTime the Record created with g has now.
PriorityIsLastAccess(g) ==
    /\ GenAt(item[g].info) = g
    /\ Priority(g) = {heap[item[g].info].lastAccessedTime}

\* C16: whenever the queue asks, the priority of a queued work item is the
\* current lastAccessedTime of the Record it was created for, and every
\* GetInfo that returns an existing Record has set that Record's
\* lastAccessedTime to the current time.
C16_PriorityFollowsLastAccess ==
    /\ [](\A g \in Queued : PriorityIsLastAccess(g))
    /\ [][\A t \in Threads :
             ReturnsExisting(t) =>
                /\ Alive(info_[fg[t].key])
                /\ heap'[info_[fg[t].key]].lastAccessedTime = now]_vars

\* Work item g is submitted in this step: it did not exist and now does.
Submitted(g) == item[g].pc = "none" /\ item'[g].pc # "none"

\* C17: one work item is submitted for every Record, in the step that creates
\* the Record, and it runs at most once: an item is queued only when it is
\* submitted, starts to run only from the queue, and once returned is never
\* queued or run again; a GetInfo that returns an existing Record submits
\* and queues nothing, whatever that Record's work item found.
C17_OneTaskPerRecord ==
    [][/\ \A g \in Gen :
             /\ Submitted(g) =>
                   /\ nalloc' = nalloc + 1
                   /\ g = nalloc'
                   /\ item'[g].pc = "queued"
                   /\ heap'[item'[g].info].st = "live"
                   /\ heap'[item'[g].info].gen = g
                   /\ heap[item'[g].info].st # "live"
             /\ item'[g].pc = "queued" => item[g].pc \in {"none", "queued"}
             /\ (item'[g].pc = "run" /\ item[g].pc # "run")
                   => item[g].pc = "queued"
             /\ item[g].pc = "done" => item'[g].pc \in {"done", "none"}
       /\ nalloc' # nalloc => Submitted(nalloc')
       /\ \A t \in Threads :
             (PlainHit(t) /\ fg'[t] # fg[t]) => item' = item]_vars

\* A GetInfo on a .PBP path is about to return the Record whose work item
\* found the container invalid and returned: the item stays finished.
C17_Witness ==
    \E t \in Threads :
       /\ fg[t].pc = "touch"
       /\ Kind(fg[t].key) = "PBP"
       /\ Alive(fg[t].info)
       /\ heap[fg[t].info].fileType = "UNKNOWN"
       /\ item[heap[fg[t].info].gen].pc = "done"

\* C18: after Init(), with a worker thread that keeps running and neither
\* Clear nor Shutdown called, every work item GetInfo has queued is
\* eventually run to its end, so that a later GetInfo can find what it
\* stored.
C18_TasksComplete ==
    \A g \in Gen : (item[g].pc = "queued") ~> (item[g].pc = "done")

\* The running work item takes a step of run().
RunStep == cur # 0 /\ item'[cur] # item[cur]

\* C19: a work item changes only the Record it was created for: a step of
\* run() leaves the map as it is and every other GameInfo object as it is,
\* whether run() goes on, skips a missing file or returns early.
C19_TaskFrame ==
    [][RunStep =>
          /\ info_' = info_
          /\ \A a \in Addr :
                heap'[a] # heap[a] => (Alive(a) /\ heap[a].gen = cur)]_vars

\* Thread t runs the pic0 or the pic1 decode block of GetInfo on a Record
\* that stays allocated.
DecodesBackground(t) ==
    /\ fg[t].pc \in {"decPic0", "decPic1"}
    /\ fg'[t] # fg[t]
    /\ Alive(fg[t].info)
    /\ heap'[fg[t].info].st = "live"

\* C20: decoding a background slot in GetInfo, whether LoadPNG succeeds or
\* fails, leaves the icon slot of the Record as it was: same raw buffer, same
\* texture handle.
C20_BackgroundDecodeKeepsIcon ==
    [][\A t \in Threads :
          DecodesBackground(t) =>
             /\ heap'[fg[t].info].iconTexture = heap[fg[t].info].iconTexture
             /\ heap'[fg[t].info].iconTextureData
                   = heap[fg[t].info].iconTextureData]_vars

=============================================================================
